---- MODULE Spec2Model ----
(***************************************************************************)
(* line-counter: count_dir walks a directory tree, classifies the lines of *)
(* every readable file with the comment syntax of its extension and sums   *)
(* the counts per extension and in total; main prints the sorted result.   *)
(*                                                                         *)
(* Strings are sequences of one-character strings, so that find,           *)
(* starts_with, trim and lines are computed on the characters.  An index   *)
(* is 0-based as in Rust; Option<usize>::None is the value None.           *)
(***************************************************************************)
EXTENDS Integers, Sequences, FiniteSets, TLC

VARIABLES
    walk,            \* entries the directory walk has still to yield
    count_empty,     \* Args.count_empty
    count_comments,  \* Args.count_comments
    res,             \* CountResult { languages, total }
    pc,              \* position in count_dir / main
    src,             \* text of the file being counted
    lang,            \* extension key of the file being counted
    lines,           \* what the iterator `lines` has still to yield
    line,            \* `line` of the outer while loop
    sntx,            \* position of `sntx` in language.comments (1-based)
    i,               \* `i`, index of the block start in `line`
    count,           \* `count`; at pc = "counted" the value bound to `lines`
    skip,            \* `skip`
    languages,       \* main: the sorted vector still to print
    out              \* lines printed so far

vars == <<walk, count_empty, count_comments, res, pc, src, lang, lines, line,
          sntx, i, count, skip, languages, out>>

None == -1

----------------------------------------------------------------------------
(* Bounds of the explored inputs *)

MaxSrcToks == 4      \* tokens per generated text of several lines
MaxLineToks == 2     \* tokens per generated text of one line
MaxFiles == 3        \* entries per walk in the whole-program specification

----------------------------------------------------------------------------
(* str primitives *)

Whitespace == {" ", "\t", "\r", "\n"}

StartsWith(s, p) ==
    /\ Len(p) <= Len(s)
    /\ SubSeq(s, 1, Len(p)) = p

\* str::find: byte index of the first occurrence, or None
Find(s, p) ==
    LET hits == {k \in 0..(Len(s) - Len(p)) : SubSeq(s, k + 1, k + Len(p)) = p}
    IN  IF hits = {} THEN None
        ELSE CHOOSE k \in hits : \A h \in hits : k <= h

RECURSIVE TrimStart(_)
TrimStart(s) ==
    IF s # <<>> /\ Head(s) \in Whitespace THEN TrimStart(Tail(s)) ELSE s

RECURSIVE TrimEnd(_)
TrimEnd(s) ==
    IF s # <<>> /\ s[Len(s)] \in Whitespace
    THEN TrimEnd(SubSeq(s, 1, Len(s) - 1))
    ELSE s

Trim(s) == TrimEnd(TrimStart(s))

\* str::lines: split at "\n", a final piece without "\n" is a line unless
\* it is empty, and a "\r" before the "\n" is dropped.
StripCr(s) ==
    IF s # <<>> /\ s[Len(s)] = "\r" THEN SubSeq(s, 1, Len(s) - 1) ELSE s

RECURSIVE Lines(_)
Lines(s) ==
    IF s = <<>> THEN <<>>
    ELSE LET n == Find(s, <<"\n">>)
         IN  IF n = None THEN <<s>>
             ELSE <<StripCr(SubSeq(s, 1, n))>> \o Lines(SubSeq(s, n + 2, Len(s)))

Last(s) == s[Len(s)]

----------------------------------------------------------------------------
(* Language registry *)

LineStart(start) == [kind |-> "LineStart", start |-> start, end |-> <<>>]
Range(start, end) == [kind |-> "Range", start |-> start, end |-> end]

\* C_STYLE with the range rule listed first
C_STYLE_RangeFirst ==
    << Range(<<"/", "*">>, <<"*", "/">>), LineStart(<<"/", "/">>) >>

C_STYLE == << LineStart(<<"/", "/">>), Range(<<"/", "*">>, <<"*", "/">>) >>
HASH == << LineStart(<<"#">>) >>
MATLAB == << LineStart(<<"%">>), Range(<<"%", "{">>, <<"}", "%">>) >>
SCHEME == << LineStart(<<";">>), Range(<<"#", "|">>, <<"|", "#">>) >>

Language(name, comments) == [name |-> name, comments |-> comments]

IGNORE_DIRS == {"target", "build"}

LANGUAGES ==
    ( "rs" :> Language("Rust", C_STYLE) ) @@
    ( "go" :> Language("Go", C_STYLE) ) @@
    ( "h" :> Language("C", C_STYLE) ) @@
    ( "c" :> Language("C", C_STYLE) ) @@
    ( "hpp" :> Language("C++", C_STYLE) ) @@
    ( "cpp" :> Language("C++", C_STYLE) ) @@
    ( "cs" :> Language("C#", C_STYLE) ) @@
    ( "java" :> Language("Java", C_STYLE) ) @@
    ( "js" :> Language("javascript", C_STYLE) ) @@
    ( "carbon" :> Language("Carbon", C_STYLE) ) @@
    ( "swift" :> Language("Swift", C_STYLE) ) @@
    ( "dart" :> Language("Dart", C_STYLE) ) @@
    ( "sc" :> Language("Scala", C_STYLE) ) @@
    ( "kt" :> Language("Kotlin", C_STYLE) ) @@
    ( "hla" :> Language("HLA", C_STYLE) ) @@
    ( "lua" :> Language("Lua", C_STYLE) ) @@
    ( "rhai" :> Language("Rhai", C_STYLE) ) @@
    ( "ts" :> Language("Scala",
                << Range(<<"/", "*", "*">>, <<"*", "/">>) >>) ) @@
    ( "wgsl" :> Language("wglsl", C_STYLE) ) @@
    ( "glsl" :> Language("glsl", C_STYLE) ) @@
    ( "hlsl" :> Language("hlsl", C_STYLE) ) @@
    ( "php" :> Language("Swift",
                << LineStart(<<"/", "/">>), LineStart(<<"#">>),
                   Range(<<"/", "*">>, <<"*", "/">>) >>) ) @@
    ( "hs" :> Language("Haskell",
                << LineStart(<<"-", "-">>),
                   Range(<<"{", "-">>, <<"-", "}">>) >>) ) @@
    ( "rb" :> Language("Ruby",
                << LineStart(<<"#">>),
                   Range(<<"=", "b", "e", "g", "i", "n">>,
                         <<"=", "e", "n", "d">>) >>) ) @@
    ( "asm" :> Language("Assembly", << LineStart(<<";">>) >>) ) @@
    ( "tao" :> Language("Tao", << LineStart(<<"#", "#">>) >>) ) @@
    ( "html" :> Language("html",
                << Range(<<"<", "!", "-", "-">>, <<"-", "-", ">">>) >>) ) @@
    ( "css" :> Language("css", << Range(<<"/", "*">>, <<"*", "/">>) >>) ) @@
    ( "zig" :> Language("Zig", << LineStart(<<"/", "/">>) >>) ) @@
    ( "py" :> Language("Python", HASH) ) @@
    ( "r" :> Language("R", HASH) ) @@
    ( "pl" :> Language("Perl", HASH) ) @@
    ( "emojic" :> Language("emojicode", HASH) ) @@
    ( "toml" :> Language("TOML", HASH) ) @@
    ( "gitignore" :> Language("git ignore", HASH) ) @@
    ( "makefile" :> Language("make file", HASH) ) @@
    ( "bash" :> Language("bash script", HASH) ) @@
    ( "bat" :> Language("batch script",
                << LineStart(<<"R", "e", "m">>), LineStart(<<":", ":">>) >>) ) @@
    ( "m" :> Language("Matlab", MATLAB) ) @@
    ( "mat" :> Language("Matlab", MATLAB) ) @@
    ( "ss" :> Language("Scheme", SCHEME) ) @@
    ( "sls" :> Language("Scheme", SCHEME) ) @@
    ( "scm" :> Language("Scheme", SCHEME) )

Known(ext) == ext \in DOMAIN LANGUAGES

\* CommentAware without the filter on count_comments
CommentAwareAnyFlag(ext, cc) == Known(ext)

\* LANGUAGES.get(lang).filter(|_| !count_comments) is Some
CommentAware(ext, cc) == Known(ext) /\ ~cc

----------------------------------------------------------------------------
(* The line classifier *)

\* FilterLines testing the line for emptiness before it is trimmed
RECURSIVE FilterLinesRaw(_, _)
FilterLinesRaw(ls, ce) ==
    IF ls = <<>> THEN <<>>
    ELSE IF ce \/ Head(ls) # <<>>
         THEN <<Trim(Head(ls))>> \o FilterLinesRaw(Tail(ls), ce)
         ELSE FilterLinesRaw(Tail(ls), ce)

\* the iterator `lines`: every line trimmed, empty ones dropped unless
\* count_empty
RECURSIVE FilterLines(_, _)
FilterLines(ls, ce) ==
    IF ls = <<>> THEN <<>>
    ELSE LET t == Trim(Head(ls))
         IN  IF ce \/ t # <<>>
             THEN <<t>> \o FilterLines(Tail(ls), ce)
             ELSE FilterLines(Tail(ls), ce)

\* RangeOpen with the comparison turned round: a close before the open
\* keeps the rule from firing, a close after it does not
RangeOpenCloseAfter(ln, start, end) ==
    LET a == Find(ln, start)
        j == Find(ln, end)
    IN  IF a # None /\ (j = None \/ j > a) THEN a ELSE None

\* RangeOpen without the filter: the rule fires wherever open is found
RangeOpenUnfiltered(ln, start, end) == Find(ln, start)

\* line.find(start).filter(|i| line.find(end).map_or(true, |j| j < *i))
RangeOpen(ln, start, end) ==
    LET a == Find(ln, start)
        j == Find(ln, end)
    IN  IF a # None /\ (j = None \/ j < a) THEN a ELSE None

\* CloseSkip with <= for ==: every closing line is skipped
CloseSkipLe(ln, end, j) == j + Len(end) <= Len(ln)

\* CloseSkip never set: every closing line is counted
CloseSkipNever(ln, end, j) == FALSE

\* skip = i + end.len() == line.len()
CloseSkip(ln, end, j) == j + Len(end) = Len(ln)

\* the loop 'comments from position k on: the first rule that decides
RECURSIVE MatchFrom(_, _, _)
MatchFrom(comments, k, ln) ==
    IF k > Len(comments) THEN [kind |-> "none", sntx |-> 0, i |-> 0]
    ELSE LET c == comments[k]
         IN  IF c.kind = "LineStart"
             THEN IF StartsWith(ln, c.start)
                  THEN [kind |-> "skip", sntx |-> k, i |-> 0]
                  ELSE MatchFrom(comments, k + 1, ln)
             ELSE LET a == RangeOpen(ln, c.start, c.end)
                  IN  IF a # None
                      THEN [kind |-> "range", sntx |-> k, i |-> a]
                      ELSE MatchFrom(comments, k + 1, ln)

\* OpenCount without the increment of line 170
OpenCountNever(a) == 0

\* what a pass adds to `count`: lines 169-171 and lines 183-185
OpenCount(a) == IF a > 0 THEN 1 ELSE 0
SkipCount(sk) == IF ~sk THEN 1 ELSE 0

\* The locals of the classifier as one record s: pc is the position
\* ("outer": in the outer while loop, no block open; "inner": in the inner
\* while loop, inside a block; "counted": the count is bound).

\* lines 147-153 and 188-190: the iterator is built; without a comment table
\* (unknown extension, or count_comments) the result is lines.count()
StartScan(ext, ce, cc, text) ==
    LET all == FilterLines(Lines(text), ce)
    IN  [pc |-> IF CommentAware(ext, cc) THEN "outer" ELSE "counted",
         lines |-> IF CommentAware(ext, cc) THEN all ELSE <<>>,
         line |-> <<>>, sntx |-> 0, i |-> 0, skip |-> FALSE,
         count |-> IF CommentAware(ext, cc) THEN 0 ELSE Len(all)]

\* the for loop over the rules on line ln from rule k on, up to the inner
\* loop if a range opens, else up to the end of the pass
Decide(comments, s, ln, k) ==
    LET m == MatchFrom(comments, k, ln)
    IN  [pc |-> IF m.kind = "range" THEN "inner" ELSE "outer",
         lines |-> s.lines,
         line |-> ln,
         sntx |-> m.sntx,
         i |-> m.i,
         skip |-> (m.kind = "skip"),
         count |-> IF m.kind = "range" THEN s.count + OpenCount(m.i)
                   ELSE s.count + SkipCount(m.kind = "skip")]

\* one pass of the outer while loop on the next line
OuterPass(comments, s) ==
    Decide(comments, [s EXCEPT !.lines = Tail(s.lines)], Head(s.lines), 1)

\* lines.next() is None in the outer loop: `count` is the result
OuterDone(s) == [s EXCEPT !.pc = "counted"]

\* InnerPass with the text after the close marker searched for a new open
\* marker, which keeps the block state
InnerPassRescans(comments, s) ==
    LET ln == Head(s.lines)
        end == comments[s.sntx].end
        j == Find(ln, end)
        rest == IF j # None THEN SubSeq(ln, j + Len(end) + 1, Len(ln)) ELSE <<>>
    IN  IF j # None /\ Find(rest, comments[s.sntx].start) = None
        THEN [s EXCEPT !.lines = Tail(s.lines),
                       !.skip = CloseSkip(ln, end, j),
                       !.count = s.count + SkipCount(CloseSkip(ln, end, j)),
                       !.pc = "outer"]
        ELSE [s EXCEPT !.lines = Tail(s.lines)]

\* one pass of the inner while loop on the next line
InnerPass(comments, s) ==
    LET ln == Head(s.lines)
        end == comments[s.sntx].end
        j == Find(ln, end)
    IN  IF j # None
        THEN [s EXCEPT !.lines = Tail(s.lines),
                       !.skip = CloseSkip(ln, end, j),
                       !.count = s.count + SkipCount(CloseSkip(ln, end, j)),
                       !.pc = "outer"]
        ELSE [s EXCEPT !.lines = Tail(s.lines)]

\* lines.next() is None in the inner loop: the for loop goes on with the
\* rules after sntx, on the same `line`
InnerDone(comments, s) == Decide(comments, s, s.line, s.sntx + 1)

ScanStep(comments, s) ==
    IF s.pc = "outer"
    THEN IF s.lines # <<>> THEN OuterPass(comments, s) ELSE OuterDone(s)
    ELSE IF s.lines # <<>> THEN InnerPass(comments, s)
                           ELSE InnerDone(comments, s)

RECURSIVE ScanAll(_, _)
ScanAll(comments, s) ==
    IF s.pc = "counted" THEN s ELSE ScanAll(comments, ScanStep(comments, s))

\* the value bound to `lines` at line 152 for a file of extension ext
CountLines(ext, ce, cc, text) ==
    LET s == StartScan(ext, ce, cc, text)
    IN  IF s.pc = "counted" THEN s.count
        ELSE ScanAll(LANGUAGES[ext].comments, s).count

\* AddCount with the entry overwritten instead of added to
AddCountInsert(r, ext, n) ==
    [languages |->
        [e \in DOMAIN r.languages \cup {ext} |->
            IF e = ext THEN n ELSE r.languages[e]],
     total |-> r.total + n]

\* *res.languages.entry(lang).or_insert(0) += lines; res.total += lines
AddCount(r, ext, n) ==
    [languages |->
        [e \in DOMAIN r.languages \cup {ext} |->
            IF e = ext
            THEN (IF e \in DOMAIN r.languages THEN r.languages[e] ELSE 0) + n
            ELSE r.languages[e]],
     total |-> r.total + n]

\* SortedVecs without the sort: the order of the map's iterator
SortedVecsUnsorted(m) ==
    LET n == Cardinality(DOMAIN m)
    IN  {v \in [1..n -> {<<e, m[e]>> : e \in DOMAIN m}] :
            \A a, b \in 1..n : a # b => v[a] # v[b]}

\* the orders in which collect and sort_by_key can leave the entries
SortedVecs(m) ==
    LET n == Cardinality(DOMAIN m)
    IN  {v \in [1..n -> {<<e, m[e]>> : e \in DOMAIN m}] :
            /\ \A a, b \in 1..n : a # b => v[a] # v[b]
            /\ \A a, b \in 1..n : a < b => v[a][2] <= v[b][2]}

DisplayName(ext) == IF Known(ext) THEN LANGUAGES[ext].name ELSE ext

----------------------------------------------------------------------------
(* Inputs *)

\* ["# full comment", "x = 1"]
HashExample ==
    <<"#", " ", "f", "u", "l", "l", " ", "c", "o", "m", "m", "e", "n", "t",
      "\n", "x", " ", "=", " ", "1">>

\* ["code();", "/* comment", "more comment */", "more_code();"]
BlockExample ==
    <<"c", "o", "d", "e", "(", ")", ";", "\n", "/", "*", " ", "c", "o", "m",
      "m", "e", "n", "t", "\n", "m", "o", "r", "e", " ", "c", "o", "m", "m",
      "e", "n", "t", " ", "*", "/", "\n", "m", "o", "r", "e", "_", "c", "o",
      "d", "e", "(", ")", ";", "\n">>

\* ["x = 1; /* note", "end note */"]
MidLineExample ==
    <<"x", " ", "=", " ", "1", ";", " ", "/", "*", " ", "n", "o", "t", "e",
      "\n", "e", "n", "d", " ", "n", "o", "t", "e", " ", "*", "/", "\n">>

\* ["a();", "/* never closed", "text"]
UnclosedExample ==
    <<"a", "(", ")", ";", "\n", "/", "*", " ", "n", "e", "v", "e", "r", " ",
      "c", "l", "o", "s", "e", "d", "\n", "t", "e", "x", "t", "\n">>

\* ["x = 1; /* note", "end */ note */"]
DoubleCloseExample ==
    <<"x", " ", "=", " ", "1", ";", " ", "/", "*", " ", "n", "o", "t", "e",
      "\n", "e", "n", "d", " ", "*", "/", " ", "n", "o", "t", "e", " ", "*",
      "/", "\n">>

\* ["/* a", "end */ x /* again", "y();"]
ReopenExample ==
    <<"/", "*", " ", "a", "\n", "e", "n", "d", " ", "*", "/", " ", "x", " ",
      "/", "*", " ", "a", "g", "a", "i", "n", "\n", "y", "(", ")", ";", "\n">>

Examples ==
    {HashExample, BlockExample, MidLineExample, UnclosedExample,
     DoubleCloseExample, ReopenExample}

\* the comment markers of an extension; an unknown extension is given
\* texts with the line marker of C
Markers(ext) ==
    LET cs == IF Known(ext) THEN LANGUAGES[ext].comments
              ELSE << LineStart(<<"/", "/">>) >>
    IN  {cs[k].start : k \in DOMAIN cs}
          \cup {cs[k].end : k \in {n \in DOMAIN cs : cs[n].kind = "Range"}}

LineTokens(ext) == {<<" ">>, <<"x">>} \cup Markers(ext)
Tokens(ext) == {<<"\n">>} \cup LineTokens(ext)

\* the texts made of at most n tokens
RECURSIVE Texts(_, _)
Texts(toks, n) ==
    IF n = 0 THEN {<<>>}
    ELSE LET shorter == Texts(toks, n - 1)
         IN  shorter \cup {s \o t : s \in shorter, t \in toks}

\* the extensions given texts of several lines: the C table, a range-only
\* table, the Matlab table, a line-marker table, and no table
ScanExts == {"rs", "ts", "m", "py", "xyz"}

File(name, text) == [name |-> name, ok |-> TRUE, text |-> text]
Unreadable(name) == [name |-> name, ok |-> FALSE, text |-> <<>>]

\* one file: a text of several lines for ScanExts, a text of one line for
\* every key of the registry, the examples, or a file that cannot be read
ScanEntries ==
    UNION {{File(<<"f", e>>, t) : t \in Texts(Tokens(e), MaxSrcToks)} :
              e \in ScanExts}
      \cup UNION {{File(<<"f", e>>, t) : t \in Texts(LineTokens(e), MaxLineToks)} :
                     e \in DOMAIN LANGUAGES}
      \cup {File(<<"f", e>>, t) : e \in {"rs", "py", "xyz"}, t \in Examples}
      \cup {Unreadable(<<"f", "rs">>)}

ProgNames == {<<"a", "rs">>, <<"makefile">>, <<"n", "xyz">>}

ProgEntries ==
    {File(n, t) : n \in ProgNames, t \in {HashExample, UnclosedExample}}
      \cup {Unreadable(<<"a", "rs">>)}

RECURSIVE Walks(_, _)
Walks(entries, n) ==
    IF n = 0 THEN {<<>>}
    ELSE LET shorter == Walks(entries, n - 1)
         IN  shorter \cup {Append(w, e) : w \in shorter, e \in entries}

----------------------------------------------------------------------------
(* count_dir and main *)

InitRun ==
    /\ count_empty \in BOOLEAN
    /\ count_comments \in BOOLEAN
    /\ res = [languages |-> <<>>, total |-> 0]
    /\ pc = "walk"
    /\ src = <<>>
    /\ lang = ""
    /\ lines = <<>>
    /\ line = <<>>
    /\ sntx = 0
    /\ i = 0
    /\ count = 0
    /\ skip = FALSE
    /\ languages = <<>>
    /\ out = <<>>

\* a run over a directory of at most MaxFiles entries
Init ==
    /\ walk \in Walks(ProgEntries, MaxFiles)
    /\ InitRun

\* a run over a directory of one entry
InitScan ==
    /\ walk \in {<<e>> : e \in ScanEntries}
    /\ InitRun

\* language.comments of the file being counted
Comments == LANGUAGES[lang].comments

\* the locals of the classifier
Scanner ==
    [pc |-> pc, lines |-> lines, line |-> line, sntx |-> sntx, i |-> i,
     skip |-> skip, count |-> count]

Becomes(s) ==
    /\ pc' = s.pc
    /\ lines' = s.lines
    /\ line' = s.line
    /\ sntx' = s.sntx
    /\ i' = s.i
    /\ skip' = s.skip
    /\ count' = s.count

\* SkipEntry with the failed read taken as an empty text (unwrap_or_default
\* for continue): the extension gets an entry
SkipEntryAsEmpty ==
    /\ pc = "walk"
    /\ walk # <<>>
    /\ ~Head(walk).ok
    /\ walk' = Tail(walk)
    /\ res' = AddCount(res, Last(Head(walk).name), 0)
    /\ UNCHANGED <<count_empty, count_comments, pc, src, lang, lines,
                   line, sntx, i, count, skip, languages, out>>

\* fs::read_to_string fails: continue
SkipEntry ==
    /\ pc = "walk"
    /\ walk # <<>>
    /\ ~Head(walk).ok
    /\ walk' = Tail(walk)
    /\ UNCHANGED <<count_empty, count_comments, res, pc, src, lang, lines,
                   line, sntx, i, count, skip, languages, out>>

\* ReadEntry with `count` declared before the for loop over the entries:
\* it starts at what the files before have counted
ReadEntryKeepsCount ==
    /\ pc = "walk"
    /\ walk # <<>>
    /\ Head(walk).ok
    /\ walk' = Tail(walk)
    /\ src' = Head(walk).text
    /\ lang' = Last(Head(walk).name)
    /\ LET s == StartScan(lang', count_empty, count_comments, src')
       IN  Becomes([s EXCEPT !.count = s.count + res.total])
    /\ UNCHANGED <<count_empty, count_comments, res, languages, out>>

\* the file is read, its extension taken and the classifier started
ReadEntry ==
    /\ pc = "walk"
    /\ walk # <<>>
    /\ Head(walk).ok
    /\ walk' = Tail(walk)
    /\ src' = Head(walk).text
    /\ lang' = Last(Head(walk).name)
    /\ Becomes(StartScan(lang', count_empty, count_comments, src'))
    /\ UNCHANGED <<count_empty, count_comments, res, languages, out>>

OuterStep ==
    /\ pc = "outer"
    /\ lines # <<>>
    /\ Becomes(OuterPass(Comments, Scanner))
    /\ UNCHANGED <<walk, count_empty, count_comments, res, src, lang,
                   languages, out>>

OuterEnd ==
    /\ pc = "outer"
    /\ lines = <<>>
    /\ Becomes(OuterDone(Scanner))
    /\ UNCHANGED <<walk, count_empty, count_comments, res, src, lang,
                   languages, out>>

InnerStep ==
    /\ pc = "inner"
    /\ lines # <<>>
    /\ Becomes(InnerPass(Comments, Scanner))
    /\ UNCHANGED <<walk, count_empty, count_comments, res, src, lang,
                   languages, out>>

InnerEnd ==
    /\ pc = "inner"
    /\ lines = <<>>
    /\ Becomes(InnerDone(Comments, Scanner))
    /\ UNCHANGED <<walk, count_empty, count_comments, res, src, lang,
                   languages, out>>

\* lines 192-193; the locals of the file go out of scope
Merge ==
    /\ pc = "counted"
    /\ res' = AddCount(res, lang, count)
    /\ pc' = "walk"
    /\ src' = <<>>
    /\ lang' = ""
    /\ lines' = <<>>
    /\ line' = <<>>
    /\ sntx' = 0
    /\ i' = 0
    /\ count' = 0
    /\ skip' = FALSE
    /\ UNCHANGED <<walk, count_empty, count_comments, languages, out>>

\* count_dir returns; main collects and sorts the map
Sort ==
    /\ pc = "walk"
    /\ walk = <<>>
    /\ languages' \in SortedVecs(res.languages)
    /\ pc' = "print"
    /\ UNCHANGED <<walk, count_empty, count_comments, res, src, lang, lines,
                   line, sntx, i, count, skip, out>>

PrintLang ==
    /\ pc = "print"
    /\ languages # <<>>
    /\ out' = Append(out, [kind |-> "lang",
                           name |-> DisplayName(Head(languages)[1]),
                           count |-> Head(languages)[2]])
    /\ languages' = Tail(languages)
    /\ UNCHANGED <<walk, count_empty, count_comments, res, pc, src, lang,
                   lines, line, sntx, i, count, skip>>

PrintTotal ==
    /\ pc = "print"
    /\ languages = <<>>
    /\ out' = Append(out, [kind |-> "total", name |-> "Total",
                           count |-> res.total])
    /\ pc' = "done"
    /\ UNCHANGED <<walk, count_empty, count_comments, res, src, lang, lines,
                   line, sntx, i, count, skip, languages>>

Next ==
    \/ SkipEntry
    \/ ReadEntry
    \/ OuterStep
    \/ OuterEnd
    \/ InnerStep
    \/ InnerEnd
    \/ Merge
    \/ Sort
    \/ PrintLang
    \/ PrintTotal

Spec == Init /\ [][Next]_vars

SpecScan == InitScan /\ [][Next]_vars

----------------------------------------------------------------------------
(* Properties of the line classifier *)

\* p occurs in ln at index k
Occurs(ln, p, k) ==
    /\ k + Len(p) <= Len(ln)
    /\ SubSeq(ln, k + 1, k + Len(p)) = p

Contains(ln, p) == \E k \in 0..Len(ln) : Occurs(ln, p, k)

FirstAt(ln, p, k) ==
    /\ Occurs(ln, p, k)
    /\ \A h \in 0..(k - 1) : ~Occurs(ln, p, h)

IsRange(k) == Comments[k].kind = "Range"
IsLineStart(k) == Comments[k].kind = "LineStart"

\* some occurrence of close lies strictly before the first occurrence of open
CloseBeforeOpen(ln, r) ==
    \E a \in 0..Len(ln) :
        /\ FirstAt(ln, r.start, a)
        /\ \E j \in 0..(a - 1) : Occurs(ln, r.end, j)

\* C1 as stated: a range rule fires only on a line with no close strictly
\* before the first open, so the scanner is never inside a block whose
\* opening line has close before open.
C1_FiresOnlyWithoutCloseBefore ==
    pc = "inner" => ~CloseBeforeOpen(line, Comments[sntx])

\* open occurs, and close does not occur or occurs first before the open
FiresOn(ln, r) ==
    /\ Contains(ln, r.start)
    /\ ~Contains(ln, r.end) \/ CloseBeforeOpen(ln, r)

\* a line-start rule listed before rule k claims the line
ClaimedBefore(ln, k) ==
    \E p \in 1..(k - 1) : IsLineStart(p) /\ StartsWith(ln, Comments[p].start)

\* C1 amended: a pass of the outer loop enters the block state exactly when
\* a range rule's open occurs on the line and its close is absent from the
\* line or first occurs strictly before the open, no line-start rule having
\* claimed the line; i is then the index of the first open.
C1_FiresIffCloseAbsentOrBefore ==
    [][(pc = "outer" /\ lines # <<>>) =>
          LET ln == Head(lines)
          IN  /\ pc' = "inner" <=>
                    \E k \in DOMAIN Comments :
                        /\ IsRange(k)
                        /\ ~ClaimedBefore(ln, k)
                        /\ FiresOn(ln, Comments[k])
              /\ pc' = "inner" =>
                    /\ IsRange(sntx')
                    /\ FirstAt(ln, Comments[sntx'].start, i')
                    /\ line' = ln]_vars

\* a block is open on a line that has close strictly before open
C1_Witness ==
    /\ pc = "inner"
    /\ CloseBeforeOpen(line, Comments[sntx])
    /\ lines # <<>>

\* C2: inside a block every line without the close marker is consumed and
\* counts nothing; the first line with the close marker ends the block and
\* counts 0 if the marker ends the line, 1 if text follows it.
C2_ClosingLine ==
    [][(pc = "inner" /\ lines # <<>>) =>
          LET ln == Head(lines)
              end == Comments[sntx].end
          IN  /\ lines' = Tail(lines)
              /\ IF ~Contains(ln, end)
                 THEN pc' = "inner" /\ count' = count
                 ELSE /\ pc' = "outer"
                      /\ \E j \in 0..Len(ln) :
                            /\ FirstAt(ln, end, j)
                            /\ count' = count +
                                 (IF j + Len(end) = Len(ln) THEN 0 ELSE 1)]_vars

\* a block was just closed by a line with text after the close marker,
\* and that line was counted
C2_Witness ==
    /\ pc = "outer"
    /\ sntx > 0
    /\ IsRange(sntx)
    /\ ~skip
    /\ count = 1
    /\ i = 0

NoClose(ls, end) == \A k \in DOMAIN ls : ~Contains(ls[k], end)

\* C3 as stated: once a block has opened at index 0 and no later line has
\* the close marker, nothing more is counted in the file.
C3_UnclosedBlockCountsNothing ==
    [][(pc = "inner" /\ i = 0 /\ NoClose(lines, Comments[sntx].end)) =>
          count' = count]_vars

EndsWith(ln, p) == Len(p) <= Len(ln) /\ Occurs(ln, p, Len(ln) - Len(p))

\* the first line of ls with the close marker ends with the close marker
ClosedAtEnd(ls, end) ==
    \E k \in DOMAIN ls :
        /\ \A h \in 1..(k - 1) : ~Contains(ls[h], end)
        /\ Contains(ls[k], end)
        /\ EndsWith(ls[k], end)

\* on the first line of ls with the close marker, the first occurrence of
\* the close marker ends the line
ClosedExactly(ls, end) ==
    \E k \in DOMAIN ls :
        /\ \A h \in 1..(k - 1) : ~Contains(ls[h], end)
        /\ \E j \in 0..Len(ls[k]) :
              FirstAt(ls[k], end, j) /\ j + Len(end) = Len(ls[k])

MidLineExampleCounted ==
    /\ pc = "counted"
    /\ src = MidLineExample
    /\ Known(lang) /\ LANGUAGES[lang].comments = C_STYLE
    /\ ~count_empty /\ ~count_comments

\* C4 as stated: a block that opens after index 0 counts its opening line
\* once, and nothing more is counted up to and including a closing line that
\* ends with the close marker; the example of the spec counts 1.
C4_MidLineBlockCountsOne ==
    /\ [][/\ (pc = "outer" /\ pc' = "inner" /\ i' > 0) => count' = count + 1
          /\ (pc = "inner" /\ i > 0
                /\ ClosedAtEnd(lines, Comments[sntx].end)) =>
                   count' = count]_vars
    /\ [](MidLineExampleCounted => count = 1)

\* C4 amended: a block that opens after index 0 counts its opening line
\* once, and nothing more is counted up to and including a closing line on
\* which the first occurrence of the close marker ends the line; the example
\* of the spec counts 1.
C4_MidLineBlockClosedByFirstClose ==
    /\ [][/\ (pc = "outer" /\ pc' = "inner" /\ i' > 0) => count' = count + 1
          /\ (pc = "inner" /\ i > 0
                /\ ClosedExactly(lines, Comments[sntx].end)) =>
                   /\ count' = count
                   /\ pc' = "outer" => skip']_vars
    /\ [](MidLineExampleCounted => count = 1)

C4_Witness ==
    /\ pc = "counted"
    /\ src = MidLineExample
    /\ lang = "rs"
    /\ ~count_empty /\ ~count_comments
    /\ count = 1

BlockExampleCounted ==
    /\ pc = "counted"
    /\ src = BlockExample
    /\ Known(lang) /\ LANGUAGES[lang].comments = C_STYLE
    /\ ~count_empty /\ ~count_comments

\* C5 as stated: the four lines of the block example count 3.
C5_BlockExampleIsThree == BlockExampleCounted => count = 3

\* C5 amended: the four lines of the block example count 2.
C5_BlockExampleIsTwo == BlockExampleCounted => count = 2

C5_Witness == BlockExampleCounted /\ lang = "rs" /\ count = 2

\* C6: a line met outside a block that starts with a line-start marker of
\* the language counts nothing and leaves the scanner outside a block.
C6_LinePrefixWins ==
    [][(/\ pc = "outer" /\ lines # <<>>
        /\ \E k \in DOMAIN Comments :
              IsLineStart(k) /\ StartsWith(Head(lines), Comments[k].start)) =>
          /\ count' = count
          /\ pc' = "outer"
          /\ lines' = Tail(lines)]_vars

\* a line-start rule has just claimed a line on which a range rule would
\* have fired
C6_Witness ==
    /\ pc = "outer"
    /\ skip
    /\ sntx > 0
    /\ IsLineStart(sntx)
    /\ \E k \in DOMAIN Comments : IsRange(k) /\ FiresOn(line, Comments[k])

Blank(ln) == \A k \in DOMAIN ln : ln[k] \in Whitespace

\* the number of lines of a text, blank ones left out unless ce
RawCount(text, ce) ==
    Cardinality({k \in DOMAIN Lines(text) : ce \/ ~Blank(Lines(text)[k])})

\* C7: with count_comments, or for an extension that is no key of the
\* registry, the result is the raw number of lines left by the blank filter.
C7_RawCount ==
    (pc = "counted" /\ (count_comments \/ ~Known(lang))) =>
        count = RawCount(src, count_empty)

\* an unknown extension, comments not asked for, a comment line counted
C7_Witness ==
    /\ pc = "counted"
    /\ ~Known(lang)
    /\ ~count_comments
    /\ \E k \in DOMAIN Lines(src) : StartsWith(Lines(src)[k], <<"/", "/">>)
    /\ count = 2

RECURSIVE Unlines(_)
Unlines(ls) ==
    IF ls = <<>> THEN <<>> ELSE Head(ls) \o <<"\n">> \o Unlines(Tail(ls))

NotBlank(ln) == ~Blank(ln)

\* the text without its blank lines
WithoutBlankLines(text) == Unlines(SelectSeq(Lines(text), NotBlank))

\* C8: without count_empty, the count of a text is the count of the text
\* with its blank lines removed.
C8_BlankLinesInvisible ==
    (pc = "counted" /\ ~count_empty) =>
        count = CountLines(lang, FALSE, count_comments, WithoutBlankLines(src))

\* a blank line between the opening and the closing line of a block
C8_Witness ==
    /\ pc = "counted"
    /\ ~count_empty
    /\ ~count_comments
    /\ lang = "rs"
    /\ Len(Lines(src)) = 3
    /\ Lines(src)[1] = <<"/", "*">>
    /\ Blank(Lines(src)[2])
    /\ Lines(src)[3] = <<"*", "/">>
    /\ count = 0

\* C9 as stated: no line-start marker is a prefix of a block-open marker of
\* the same language, so a line that begins with a block-open marker is
\* never claimed by a line-start rule.
C9_NoPrefixShadowsOpen ==
    (pc = "outer" /\ skip /\ sntx > 0 /\ IsLineStart(sntx)) =>
        \A k \in DOMAIN Comments :
            IsRange(k) => ~StartsWith(line, Comments[k].start)

RECURSIVE SumOver(_, _)
SumOver(m, keys) ==
    IF keys = {} THEN 0
    ELSE LET e == CHOOSE x \in keys : TRUE
         IN  m[e] + SumOver(m, keys \ {e})

\* C10: the total is the sum of the per-extension counts, and a counted file
\* adds its count to the entry of its own extension and to the total and
\* leaves every other entry as it was.
C10_TotalIsSum ==
    /\ [](res.total = SumOver(res.languages, DOMAIN res.languages))
    /\ [][pc = "counted" =>
            /\ res'.total = res.total + count
            /\ DOMAIN res'.languages = DOMAIN res.languages \cup {lang}
            /\ res'.languages[lang] =
                 (IF lang \in DOMAIN res.languages
                  THEN res.languages[lang] ELSE 0) + count
            /\ \A e \in DOMAIN res.languages \ {lang} :
                 res'.languages[e] = res.languages[e]]_vars

\* two files of one extension and a file of another have been counted
C10_Witness ==
    /\ pc = "walk"
    /\ walk = <<>>
    /\ DOMAIN res.languages = {"rs", "makefile"}
    /\ res.languages["rs"] = 4
    /\ res.languages["makefile"] = 1
    /\ res.total = 5

----------------------------------------------------------------------------
(* Properties of the run over the files *)

\* C11: a file that cannot be read leaves CountResult and everything else
\* but the walk as it was, and the walk goes on with the entries after it,
\* from the state a walk without that file would be in.
C11_UnreadableSkipped ==
    [][(pc = "walk" /\ walk # <<>> /\ ~Head(walk).ok) =>
          /\ walk' = Tail(walk)
          /\ res' = res
          /\ pc' = "walk"
          /\ UNCHANGED <<count_empty, count_comments, src, lang, lines, line,
                         sntx, i, count, skip, languages, out>>]_vars

\* a file that cannot be read comes up after a counted file and before a
\* readable one
C11_Witness ==
    /\ pc = "walk"
    /\ Len(walk) = 2
    /\ ~walk[1].ok
    /\ walk[2].ok
    /\ res.total > 0

\* C12: the count of a file is the count the classifier gives its text,
\* extension and flags from a fresh start, whatever was counted before it.
C12_CountPerFile ==
    pc = "counted" => count = CountLines(lang, count_empty, count_comments, src)

\* a file that ends inside an unclosed block has been counted after a file
\* of the same extension, and the same file comes next
C12_Witness ==
    /\ pc = "counted"
    /\ ~count_empty /\ ~count_comments
    /\ lang = "rs"
    /\ src = UnclosedExample
    /\ count = 2
    /\ res.languages = ("rs" :> 2)
    /\ walk = <<File(<<"a", "rs">>, UnclosedExample)>>

\* the per-extension lines of the output, in order
LangLines == SelectSeq(out, LAMBDA o : o.kind = "lang")

\* C13: the total line is printed once, last; before it there is one line
\* per key of CountResult with the key's display name and count, in
\* non-decreasing order of count.
C13_Output ==
    /\ \A k \in DOMAIN out : out[k].kind = "total" => (k = Len(out) /\ pc = "done")
    /\ \A a, b \in DOMAIN LangLines : a < b => LangLines[a].count <= LangLines[b].count
    /\ pc = "done" =>
          /\ Len(out) = Cardinality(DOMAIN res.languages) + 1
          /\ out[Len(out)] = [kind |-> "total", name |-> "Total",
                              count |-> res.total]
          /\ \E f \in [1..(Len(out) - 1) -> DOMAIN res.languages] :
                /\ \A e \in DOMAIN res.languages : \E k \in DOMAIN f : f[k] = e
                /\ \A k \in DOMAIN f :
                      out[k] = [kind |-> "lang",
                                name |-> IF f[k] \in DOMAIN LANGUAGES
                                         THEN LANGUAGES[f[k]].name ELSE f[k],
                                count |-> res.languages[f[k]]]

\* three extensions with different counts have been printed, one of them
\* unknown to the registry
C13_Witness ==
    /\ pc = "done"
    /\ Len(out) = 4
    /\ out[1].count < out[2].count
    /\ out[2].count < out[3].count
    /\ \E k \in 1..3 : out[k].name = "xyz"
    /\ \E k \in 1..3 : out[k].name = "Rust"
    /\ \E k \in 1..3 : out[k].name = "make file"

----------------------------------------------------------------------------
(* Properties of the count of one file *)

\* the lines of the file that the classifier works on, and how many of them
\* the iterator has handed out
Kept == FilterLines(Lines(src), count_empty)
Consumed == Len(Kept) - Len(lines)

\* C14 as stated: the count never exceeds the number of lines consumed so
\* far, and the comment-aware count of a file never exceeds its raw count.
C14_AtMostOnePerLine ==
    /\ pc \in {"outer", "inner", "counted"} => count <= Consumed
    /\ pc = "counted" => count <= CountLines(lang, count_empty, TRUE, src)

\* the first open of rule r lies before its first close on ln
OpenBeforeClose(ln, r) ==
    \E a, j \in 0..Len(ln) :
        /\ FirstAt(ln, r.start, a)
        /\ FirstAt(ln, r.end, j)
        /\ a < j

\* a line-start rule of the language matches ln
PrefixMatch(ln) ==
    \E p \in DOMAIN Comments : IsLineStart(p) /\ StartsWith(ln, Comments[p].start)

\* C15: a line whose first open marker lies before the first close marker
\* of a range rule, and which no line-start rule matches, adds exactly 1 to
\* the count, takes no further line and leaves the scanner outside a block.
C15_OneLineBlockCounts ==
    [][(/\ pc = "outer"
        /\ lines # <<>>
        /\ \E k \in DOMAIN Comments :
              IsRange(k) /\ OpenBeforeClose(Head(lines), Comments[k])
        /\ ~PrefixMatch(Head(lines))) =>
          /\ pc' = "outer"
          /\ count' = count + 1
          /\ lines' = Tail(lines)
          /\ line' = Head(lines)
          /\ ~skip']_vars

\* a line with a block opened and closed on it has just been counted and
\* another line follows
C15_Witness ==
    /\ pc = "outer"
    /\ sntx = 0
    /\ ~skip
    /\ count = Consumed
    /\ Consumed >= 1
    /\ line = Kept[Consumed]
    /\ \E k \in DOMAIN Comments : IsRange(k) /\ OpenBeforeClose(line, Comments[k])
    /\ ~PrefixMatch(line)
    /\ lines # <<>>

\* the scanner has just left a block: the last line consumed closed it
JustClosed ==
    /\ pc = "outer"
    /\ sntx \in DOMAIN Comments
    /\ IsRange(sntx)

\* open occurs on ln after the end of the first close
OpenAfterClose(ln, r) ==
    \E j, a \in 0..Len(ln) :
        /\ FirstAt(ln, r.end, j)
        /\ Occurs(ln, r.start, a)
        /\ j + Len(r.end) <= a

\* C16: the line that closes a block ends the block state whatever follows
\* the close marker on it, and the line after it is classified on its own:
\* it counts 1 if no rule matches it, and it opens a block only if a range
\* rule fires on it.
C16_ClosingLineNotRescanned ==
    /\ [][(pc = "inner" /\ lines # <<>>
             /\ Contains(Head(lines), Comments[sntx].end)) =>
            /\ pc' = "outer"
            /\ lines' = Tail(lines)]_vars
    /\ [][(JustClosed /\ lines # <<>>) =>
            LET ln == Head(lines)
                fires == \E k \in DOMAIN Comments :
                            IsRange(k) /\ FiresOn(ln, Comments[k])
            IN  /\ lines' = Tail(lines)
                /\ line' = ln
                /\ pc' = "inner" => fires
                /\ (~fires /\ ~PrefixMatch(ln)) =>
                      (pc' = "outer" /\ count' = count + 1)]_vars

\* a block has just been closed by a line with a new open marker after the
\* close marker, and another line follows
C16_Witness ==
    /\ JustClosed
    /\ Consumed >= 2
    /\ OpenAfterClose(Kept[Consumed], Comments[sntx])
    /\ lines # <<>>
    /\ ~FiresOn(Head(lines), Comments[sntx])
    /\ ~PrefixMatch(Head(lines))

====
